---- MODULE Spec2Model ----
(***************************************************************************)
(* The consensus scoring core: the Evaluator of EvaluatorImpl.cpp over the *)
(* S/P1-C1.2 model of S_P1C1v2_Model.cpp.                                  *)
(*                                                                         *)
(* Template, Mutation, ScaledMatrix and the Recursor are used by the two   *)
(* source files but defined elsewhere; they are modelled from the          *)
(* specification.  Matrix entries are abstracted to their support: an      *)
(* entry is 1 when the cell holds positive probability mass and 0 when it  *)
(* holds none (emission probabilities and context transitions are all      *)
(* positive, so the support is exact when the band is the whole column).   *)
(***************************************************************************)
EXTENDS Integers, Sequences, FiniteSets, TLC

VARIABLES
    phase,          \* "new", "ready", "failed", "thrown": life of the Evaluator
    tpl,            \* recursor_.tpl_ : the Template (positions + virtual overlay)
    read,           \* recursor_.read_ : the mapped read
    alpha,          \* alpha_
    beta,           \* beta_
    extendBuffer,   \* extendBuffer_
    last,           \* the last Evaluator operation and what it observed
    fn              \* the last pure model function applied, its input and output

vars == <<phase, tpl, read, alpha, beta, extendBuffer, last, fn>>

evalVars == <<phase, tpl, read, alpha, beta, extendBuffer, last>>

----------------------------------------------------------------------------
(* Bounds of the model *)

MaxTplLen == 6      \* longest template
MaxReadLen == 2     \* longest read of the Evaluator specifications
MaxStrLen == 3      \* longest string / read given to Populate / EncodeRead
MaxPW == 4          \* largest pulse width given to EncodeRead

(* Program constants *)

\* a buffer too short for the longest extension, for comparison
EXTEND_BUFFER_COLUMNS_Short == 2 + 1

EXTEND_BUFFER_COLUMNS == 8
nOutcomes == 12
nContexts == 16

----------------------------------------------------------------------------
(* Small helpers *)

Min(a, b) == IF a < b THEN a ELSE b

Max(a, b) == IF a > b THEN a ELSE b

RECURSIVE Pow2(_)
Pow2(k) == IF k = 0 THEN 1 ELSE 2 * Pow2(k - 1)

\* x << k on an int
ShiftLeft(x, k) == x * Pow2(k)

\* a | b, bit by bit
RECURSIVE BitOr(_, _)
BitOr(a, b) ==
    IF a = 0 THEN b
    ELSE IF b = 0 THEN a
    ELSE (IF a % 2 = 1 \/ b % 2 = 1 THEN 1 ELSE 0) + 2 * BitOr(a \div 2, b \div 2)

\* conversion to uint8_t
U8(x) == x % 256

\* all sequences over S of length lo..hi
SeqsOf(S, lo, hi) == UNION {[1..n -> S] : n \in lo..hi}

----------------------------------------------------------------------------
(* Characters and bases *)

ValidChars == {"A", "C", "G", "T"}

\* a character outside the alphabet, as a caller may pass
InputChars == ValidChars \cup {"N"}

\* detail::TranslationTable: 0..3 for A, C, G, T and a value above 3 otherwise
TranslationTable(c) ==
    CASE c = "A" -> 0
      [] c = "C" -> 1
      [] c = "G" -> 2
      [] c = "T" -> 3
      [] OTHER -> 4

----------------------------------------------------------------------------
(* S_P1C1v2_Model::Populate *)

\* ctxTrans_[row][k]: a softmax of exponentials, so strictly positive
ctxTrans(row, k) == <<"ctxTrans_", row, k>>

\* a literal probability
Literal(v) == <<"literal", v, 0>>

IsPositive(p) == p[1] = "ctxTrans_" \/ p[2] > 0

TemplatePosition(base, idx, m, b, s, d) ==
    [Base |-> base, Idx |-> idx, Match |-> m, Branch |-> b, Stick |-> s, Deletion |-> d]

\* the context row with its two bases exchanged, for comparison
PopulateRow_Swapped(prev, curr) == BitOr(ShiftLeft(curr, 2), prev)

\* const auto row = (prev << 2) | curr;
PopulateRow(prev, curr) == BitOr(ShiftLeft(prev, 2), curr)

InvalidBase == [ok |-> FALSE, err |-> "InvalidBase", result |-> <<>>]

\* the for loop: i is the 0-based index of the source, s[i + 1] is tpl[i]
RECURSIVE PopulateLoop(_, _, _, _)
PopulateLoop(s, i, prev, result) ==
    IF i < Len(s)
    THEN LET curr == TranslationTable(s[i + 1])
             row == PopulateRow(prev, curr)
         IN IF curr > 3 THEN InvalidBase
            ELSE PopulateLoop(s, i + 1, curr,
                     Append(result,
                         TemplatePosition(s[i], prev, ctxTrans(row, 0), ctxTrans(row, 1),
                                          ctxTrans(row, 2), ctxTrans(row, 3))))
    ELSE [ok |-> TRUE, err |-> "",
          result |-> Append(result,
              TemplatePosition(s[Len(s)], prev, Literal(1), Literal(0), Literal(0), Literal(0)))]

Populate(s) ==
    IF s = <<>> THEN [ok |-> TRUE, err |-> "", result |-> <<>>]
    ELSE LET prev == TranslationTable(s[1])
         IN IF prev > 3 THEN InvalidBase
            ELSE PopulateLoop(s, 1, prev, <<>>)

----------------------------------------------------------------------------
(* S_P1C1v2_Recursor::EncodeRead *)

MappedRead(seq, pw) == [Seq |-> seq, PulseWidth |-> pw]

Length(r) == Len(r.Seq)

\* a pulse width saturating one step later, for comparison
EncodePW_Wide(pulseWidth) == U8(Min(3, pulseWidth - 1))

\* const uint8_t pw = std::min(2, read.PulseWidth[i] - 1);
EncodePW(pulseWidth) == U8(Min(2, pulseWidth - 1))

\* const uint8_t em = (pw << 2) | bp;
Emission(pw, bp) == U8(BitOr(ShiftLeft(pw, 2), bp))

RECURSIVE EncodeLoop(_, _, _)
EncodeLoop(r, i, result) ==
    IF i < Length(r)
    THEN IF r.PulseWidth[i + 1] < 1
         THEN [ok |-> FALSE, err |-> "InvalidPulseWidth", result |-> <<>>]
         ELSE LET pw == EncodePW(r.PulseWidth[i + 1])
                  bp == TranslationTable(r.Seq[i + 1])
                  em == Emission(pw, bp)
              IN IF bp > 3 THEN InvalidBase
                 ELSE IF em > 11
                      THEN [ok |-> FALSE, err |-> "ReadEncodingError", result |-> <<>>]
                      ELSE EncodeLoop(r, i + 1, Append(result, em))
    ELSE [ok |-> TRUE, err |-> "", result |-> result]

EncodeRead(r) == EncodeLoop(r, 0, <<>>)

----------------------------------------------------------------------------
(* Mutation: a single-base edit.  End and LengthDiff follow from the type: *)
(* an insertion edits the empty range [start, start) and adds one base, a  *)
(* substitution or a deletion edits [start, start + 1).                    *)

Mutation(type, start, base) == [Type |-> type, Start |-> start, Base |-> base]

NoMutation == Mutation("NONE", 0, "-")

MutationTypes == {"SUBSTITUTION", "INSERTION", "DELETION"}

Start(m) == m.Start

End(m) == IF m.Type = "INSERTION" THEN m.Start ELSE m.Start + 1

LengthDiff(m) ==
    CASE m.Type = "INSERTION" -> 1
      [] m.Type = "DELETION" -> -1
      [] OTHER -> 0

\* the bases the edits of the Evaluator specifications draw from
MutationBases == {"C"}

\* the mutations a caller may pass for a template of length L: start <= end <= L
Mutations(L) ==
    {m \in {Mutation(ty, st, b) : ty \in {"SUBSTITUTION", "INSERTION"},
                                  st \in 0..L, b \in MutationBases}
            \cup {Mutation("DELETION", st, "-") : st \in 0..L} :
        End(m) <= L}

----------------------------------------------------------------------------
(* Template: the populated positions and at most one virtual mutation *)

Bases(positions) == [i \in 1..Len(positions) |-> positions[i].Base]

\* the base string with the edit made
ApplyToBases(s, m) ==
    CASE m.Type = "INSERTION" ->
             SubSeq(s, 1, m.Start) \o <<m.Base>> \o SubSeq(s, m.Start + 1, Len(s))
      [] m.Type = "SUBSTITUTION" ->
             SubSeq(s, 1, m.Start) \o <<m.Base>> \o SubSeq(s, m.Start + 2, Len(s))
      [] m.Type = "DELETION" ->
             SubSeq(s, 1, m.Start) \o SubSeq(s, m.Start + 2, Len(s))
      [] OTHER -> s

Template(s) == [tpl |-> Populate(s).result, mutated |-> FALSE, mut |-> NoMutation]

\* Length(): the length of the visible sequence
Template_Length(t) == Len(t.tpl) + (IF t.mutated THEN LengthDiff(t.mut) ELSE 0)

\* operator[]: the visible positions
View(t) ==
    IF t.mutated THEN Populate(ApplyToBases(Bases(t.tpl), t.mut)).result ELSE t.tpl

Mutate(t, m) == [t EXCEPT !.mutated = TRUE, !.mut = m]

Reset(t) == [t EXCEPT !.mutated = FALSE, !.mut = NoMutation]

Template_ApplyMutation(t, m) ==
    [t EXCEPT !.tpl = Populate(ApplyToBases(Bases(t.tpl), m)).result]

\* two edits of one batch touch the same site
Overlap(m1, m2) ==
    \/ Start(m1) = Start(m2)
    \/ Start(m1) < End(m2) /\ Start(m2) < End(m1)

\* the batch in descending position order
RECURSIVE SortDescending(_)
SortDescending(ms) ==
    IF ms = {} THEN <<>>
    ELSE LET top == CHOOSE m \in ms : \A o \in ms : Start(o) <= Start(m)
         IN <<top>> \o SortDescending(ms \ {top})

RECURSIVE CommitAll(_, _)
CommitAll(t, ms) ==
    IF ms = <<>> THEN t ELSE CommitAll(Template_ApplyMutation(t, Head(ms)), Tail(ms))

Template_ApplyMutations(t, ms) ==
    IF \E m1, m2 \in ms : m1 # m2 /\ Overlap(m1, m2)
    THEN [ok |-> FALSE, err |-> "TemplateOverlap", tpl |-> t]
    ELSE [ok |-> TRUE, err |-> "", tpl |-> CommitAll(t, SortDescending(ms))]

----------------------------------------------------------------------------
(* ScaledMatrix, by support: col[j + 1][i + 1] is 1 when cell (i, j) holds  *)
(* positive mass                                                           *)

ZeroColumn(rows) == [i \in 1..rows |-> 0]

ScaledMatrix(rows, cols) ==
    [rows |-> rows, cols |-> cols, col |-> [j \in 1..cols |-> ZeroColumn(rows)]]

\* an Evaluator member before its constructor ran
Unallocated == ScaledMatrix(0, 0)

Matrix_Reset(m, rows, cols) == ScaledMatrix(rows, cols)

Get(m, i, j) == m.col[j + 1][i + 1]

\* SetColumn on columns 0 .. Len(cs) - 1 of a matrix that was just Reset
WriteColumns(m, cs) ==
    [m EXCEPT !.col = [j \in 1..Max(m.cols, Len(cs)) |-> IF j <= Len(cs) THEN cs[j] ELSE m.col[j]]]

\* what a column of the reused extend buffer holds when the call did not
\* write it: whatever Reset or an earlier call left there
LeftoverColumn(rows) == [i \in 1..rows |-> 2]

\* SetColumn on columns 0 .. Len(cs) - 1 of the extend buffer
WriteBuffer(m, cs) ==
    [m EXCEPT !.col = [j \in 1..Max(m.cols, Len(cs)) |->
                          IF j <= Len(cs) THEN cs[j] ELSE LeftoverColumn(m.rows)]]

----------------------------------------------------------------------------
(* Recursor: the pair-HMM moves.  P is the visible template, positions     *)
(* 1..L; column j of alpha or beta stands for j template bases consumed.   *)

\* a match enters column j: from the start, or out of position j - 1
MatchOK(P, j) == j = 1 \/ IsPositive(P[j - 1].Match)

\* a branch or a stick stays in column j: out of position j
InsertOK(P, j) == j >= 1 /\ (IsPositive(P[j].Branch) \/ IsPositive(P[j].Stick))

\* a deletion enters column j: out of position j - 1
DeleteOK(P, j) == j >= 2 /\ IsPositive(P[j - 1].Deletion)

Bit(b) == IF b THEN 1 ELSE 0

\* rows 0..N of alpha's column j from its column j - 1
RECURSIVE AlphaRows(_, _, _, _, _, _)
AlphaRows(prev, P, j, N, i, acc) ==
    IF i > N THEN acc
    ELSE AlphaRows(prev, P, j, N, i + 1,
             Append(acc,
                 Bit(\/ i >= 1 /\ prev[i] = 1 /\ MatchOK(P, j)
                     \/ i >= 1 /\ acc[i] = 1 /\ InsertOK(P, j)
                     \/ prev[i + 1] = 1 /\ DeleteOK(P, j))))

AlphaColumn(prev, P, j, N) == AlphaRows(prev, P, j, N, 0, <<>>)

\* rows N..0 of beta's column j from its column j + 1
RECURSIVE BetaRows(_, _, _, _, _, _)
BetaRows(next, P, j, N, i, acc) ==
    IF i < 0 THEN acc
    ELSE BetaRows(next, P, j, N, i - 1,
             <<Bit(\/ i < N /\ next[i + 2] = 1 /\ MatchOK(P, j + 1)
                   \/ i < N /\ acc[1] = 1 /\ InsertOK(P, j)
                   \/ next[i + 1] = 1 /\ DeleteOK(P, j + 1))>> \o acc)

BetaColumn(next, P, j, N) == BetaRows(next, P, j, N, N, <<>>)

\* alpha(0, 0) = 1
FirstColumn(N) == [i \in 1..(N + 1) |-> Bit(i = 1)]

\* beta(N, L) = 1
LastColumn(N) == [i \in 1..(N + 1) |-> Bit(i = N + 1)]

RECURSIVE AlphaColumns(_, _, _, _)
AlphaColumns(P, N, j, cs) ==
    IF j > Len(P) THEN cs
    ELSE AlphaColumns(P, N, j + 1, Append(cs, AlphaColumn(cs[j], P, j, N)))

RECURSIVE BetaColumns(_, _, _, _)
BetaColumns(P, N, j, cs) ==
    IF j < 0 THEN cs
    ELSE BetaColumns(P, N, j - 1, <<BetaColumn(cs[1], P, j, N)>> \o cs)

\* FillAlpha(guide, alpha) with the band the whole column
FillAlpha(P, N, a) == WriteColumns(a, AlphaColumns(P, N, 1, <<FirstColumn(N)>>))

FillBeta(P, N, b) == WriteColumns(b, BetaColumns(P, N, Len(P) - 1, <<LastColumn(N)>>))

\* columns startCol .. startCol + length - 1 over the visible template, the
\* first copied from alpha
RECURSIVE ExtendAlphaColumns(_, _, _, _, _)
ExtendAlphaColumns(P, N, startCol, length, cs) ==
    IF Len(cs) >= length THEN cs
    ELSE ExtendAlphaColumns(P, N, startCol, length,
             Append(cs, AlphaColumn(cs[Len(cs)], P, startCol + Len(cs), N)))

ExtendAlpha(P, N, a, startCol, buf, length) ==
    WriteBuffer(buf, ExtendAlphaColumns(P, N, startCol, length, <<a.col[startCol + 1]>>))

\* columns 0 .. lastCol + lengthDiff over the visible template, the last
\* seeded from beta's column lastCol
RECURSIVE ExtendBetaColumns(_, _, _, _)
ExtendBetaColumns(P, N, j, cs) ==
    IF j < 0 THEN cs
    ELSE ExtendBetaColumns(P, N, j - 1, <<BetaColumn(cs[1], P, j, N)>> \o cs)

ExtendBeta(P, N, b, lastCol, buf, lengthDiff) ==
    WriteBuffer(buf, ExtendBetaColumns(P, N, lastCol + lengthDiff - 1, <<b.col[lastCol + 1]>>))

\* the sum over i of buf(i, extLen - 1) * beta(i, betaLinkCol) is positive; a
\* sum over a column this call did not write is whatever was left there
LinkAlphaBeta(N, buf, extLen, b, betaLinkCol, absoluteLinkColumn) ==
    IF \E i \in 0..N : Get(buf, i, extLen - 1) = 2
    THEN 2
    ELSE Bit(\E i \in 0..N : Get(buf, i, extLen - 1) = 1 /\ Get(b, i, betaLinkCol) = 1)

----------------------------------------------------------------------------
(* EvaluatorImpl.  An Evaluator value e holds the members: e.tpl is          *)
(* recursor_.tpl_, e.read is recursor_.read_, e.alpha, e.beta and            *)
(* e.extendBuffer are the matrices.                                         *)

Evaluator(t, r, a, b, x) == [tpl |-> t, read |-> r, alpha |-> a, beta |-> b, extendBuffer |-> x]

\* recursor_.FillAlphaBeta(alpha_, beta_): alpha, then beta, over the visible template
FillAlphaBeta(e) ==
    [e EXCEPT !.alpha = FillAlpha(View(e.tpl), Length(e.read), e.alpha),
              !.beta = FillBeta(View(e.tpl), Length(e.read), e.beta)]

\* LL() const: log(beta_(0, 0)) + ... is finite exactly when beta_(0, 0) is positive
LL(e) == Get(e.beta, 0, 0)

IsFinite(ll) == ll = 1

\* the member initialisers and the fill of the constructor
EvaluatorImpl_Members(t, r) ==
    FillAlphaBeta(Evaluator(t, r,
        ScaledMatrix(Length(r) + 1, Template_Length(t) + 1),
        ScaledMatrix(Length(r) + 1, Template_Length(t) + 1),
        ScaledMatrix(Length(r) + 1, EXTEND_BUFFER_COLUMNS)))

\* if (!std::isfinite(LL())) throw AlphaBetaMismatch();
EvaluatorImpl_Throws(e) == ~IsFinite(LL(e))

\* a refill into the matrices as they are, for comparison
Recalculate_NoResize(e) == FillAlphaBeta(e)

Recalculate(e) ==
    LET I == Length(e.read) + 1
        J == Template_Length(e.tpl) + 1
    IN FillAlphaBeta([e EXCEPT !.alpha = Matrix_Reset(e.alpha, I, J),
                               !.beta = Matrix_Reset(e.beta, I, J),
                               !.extendBuffer = Matrix_Reset(e.extendBuffer, I, EXTEND_BUFFER_COLUMNS)])

\* the refill run before the commit, for comparison
EvaluatorImpl_ApplyMutation_RecalculateFirst(e, m) ==
    [Recalculate(e) EXCEPT !.tpl = Template_ApplyMutation(e.tpl, m)]

EvaluatorImpl_ApplyMutation(e, m) ==
    Recalculate([e EXCEPT !.tpl = Template_ApplyMutation(e.tpl, m)])

\* the outcome of tpl_->ApplyMutations decides whether Recalculate is reached
EvaluatorImpl_ApplyMutations(e, ms) ==
    LET r == Template_ApplyMutations(e.tpl, ms)
    IN IF r.ok THEN Recalculate([e EXCEPT !.tpl = r.tpl]) ELSE e

----------------------------------------------------------------------------
(* EvaluatorImpl::LL(const Mutation&) *)

betaLinkCol(m) == 1 + End(m)

absoluteLinkColumn(m) == 1 + End(m) + LengthDiff(m)

\* a narrower begin margin, for comparison
atBegin_Narrow(m) == Start(m) < 2

atBegin(m) == Start(m) < 3

\* the end test against the virtual template's columns, for comparison
atEnd_Virtual(e, m) == (End(m) + 3) > Template_Length(e.tpl) + 1

\* beta_.Columns() is that of the committed template: LL never resizes beta_
atEnd(e, m) == (End(m) + 3) > e.beta.cols

\* the four branches
Branch(e, m) ==
    CASE ~atBegin(m) /\ ~atEnd(e, m) -> "middle"
      [] ~atBegin(m) /\ atEnd(e, m) -> "atEnd"
      [] atBegin(m) /\ ~atEnd(e, m) -> "atBegin"
      [] OTHER -> "fallback"

\* each branch: e is the Evaluator with the virtual mutation installed; the
\* result is the extend buffer after the branch, whether the score is finite,
\* the first alpha column extended from and the buffer columns used

Scored(buf, score, extendStartCol, extendLength) ==
    [extendBuffer |-> buf, score |-> score,
     extendStartCol |-> extendStartCol, extendLength |-> extendLength]

\* score = LinkAlphaBeta(extendBuffer_, extendLength, beta_, betaLinkCol, absoluteLinkColumn) + ...
LL_MiddleScore(e, m, buf, extendStartCol, extendLength) ==
    Scored(buf,
           LinkAlphaBeta(Length(e.read), buf, extendLength, e.beta,
                         betaLinkCol(m), absoluteLinkColumn(m)),
           extendStartCol, extendLength)

LL_MiddleExtend(e, m, extendStartCol, extendLength) ==
    LL_MiddleScore(e, m,
        ExtendAlpha(View(e.tpl), Length(e.read), e.alpha, extendStartCol,
                    e.extendBuffer, extendLength),
        extendStartCol, extendLength)

\* the extension started at mut.Start() for every type, for comparison
LL_Middle_FromStart(e, m) == LL_MiddleExtend(e, m, Start(m), 2)

\* !atBegin && !atEnd
LL_Middle(e, m) ==
    LL_MiddleExtend(e, m, IF m.Type = "DELETION" THEN Start(m) - 1 ELSE Start(m), 2)

\* the score read one column further, for comparison
LL_AtEndScore_NextColumn(e, buf, extendStartCol, extendLength) ==
    Scored(buf, Get(buf, Length(e.read), Min(extendLength, EXTEND_BUFFER_COLUMNS - 1)),
           extendStartCol, extendLength)

\* score = log(extendBuffer_(read_.Length(), extendLength - 1)) + ...
LL_AtEndScore(e, buf, extendStartCol, extendLength) ==
    Scored(buf, Get(buf, Length(e.read), extendLength - 1), extendStartCol, extendLength)

LL_AtEndExtend(e, extendStartCol, extendLength) ==
    LL_AtEndScore(e,
        ExtendAlpha(View(e.tpl), Length(e.read), e.alpha, extendStartCol,
                    e.extendBuffer, extendLength),
        extendStartCol, extendLength)

\* size_t extendLength = recursor_.tpl_->Length() - extendStartCol + 1;
AtEndExtendLength(e, extendStartCol) == Template_Length(e.tpl) - extendStartCol + 1

\* !atBegin && atEnd
LL_AtEnd(e, m) == LL_AtEndExtend(e, Start(m) - 1, AtEndExtendLength(e, Start(m) - 1))

\* the length without the seed column, for comparison
AtBeginExtendLength_NoSeed(m) == End(m) + LengthDiff(m)

\* size_t extendLength = 1 + mut.End() + mut.LengthDiff();
AtBeginExtendLength(m) == 1 + End(m) + LengthDiff(m)

\* score = log(extendBuffer_(0, 0)) + ...
LL_AtBeginScore(m, buf) == Scored(buf, Get(buf, 0, 0), 0, AtBeginExtendLength(m))

\* atBegin && !atEnd
LL_AtBegin(e, m) ==
    LL_AtBeginScore(m,
        ExtendBeta(View(e.tpl), Length(e.read), e.beta, End(m), e.extendBuffer, LengthDiff(m)))

\* atBegin && atEnd: the whole fill into a fresh alphaP
LL_Fallback(e, m) ==
    Scored(e.extendBuffer,
           Get(FillAlpha(View(e.tpl), Length(e.read),
                         ScaledMatrix(Length(e.read) + 1, Template_Length(e.tpl) + 1)),
               Length(e.read), Template_Length(e.tpl)),
           0, 0)

LL_Score(e, m, branch) ==
    CASE branch = "middle" -> LL_Middle(e, m)
      [] branch = "atEnd" -> LL_AtEnd(e, m)
      [] branch = "atBegin" -> LL_AtBegin(e, m)
      [] OTHER -> LL_Fallback(e, m)

\* recursor_.tpl_->Mutate(mut);
LL_Enter(t, m) == Mutate(t, m)

\* an exit that leaves the overlay in place, for comparison
LL_Exit_NoReset(t) == t

\* recursor_.tpl_->Reset();
LL_Exit(t) == Reset(t)

\* return score + ...: the Evaluator after the call and what the call computed
LL_Return(e, branch, r) ==
    [e |-> [e EXCEPT !.tpl = LL_Exit(e.tpl), !.extendBuffer = r.extendBuffer],
     branch |-> branch, score |-> r.score,
     extendStartCol |-> r.extendStartCol, extendLength |-> r.extendLength]

LL_Dispatch(e, m, branch) == LL_Return(e, branch, LL_Score(e, m, branch))

LL_Mutated(e, m) == LL_Dispatch(e, m, Branch(e, m))

\* the call that returns
LL_Mutation(e, m) == LL_Mutated([e EXCEPT !.tpl = LL_Enter(e.tpl, m)], m)

\* the call that ends in an exception thrown by the allocation of alphaP
\* (std::bad_alloc): nothing between Mutate and the throw undoes the overlay
LL_Mutation_Throws(e, m) == [e EXCEPT !.tpl = LL_Enter(e.tpl, m)]

----------------------------------------------------------------------------
(* The Evaluator as a state machine *)

\* the bases the templates of the Evaluator specifications are written in
TemplateBases == {"A", "C"}

\* the read of length n: ACGTACGT... with every pulse width 1
ReadOfLength(n) ==
    MappedRead([i \in 1..n |-> <<"A", "C", "G", "T">>[((i - 1) % 4) + 1]], [i \in 1..n |-> 1])

\* the edits a batch is drawn from
BatchMutations(L) == {m \in Mutations(L) : Start(m) <= 1}

RECURSIVE SumLengthDiff(_)
SumLengthDiff(ms) ==
    IF ms = {} THEN 0
    ELSE LET m == CHOOSE x \in ms : TRUE IN LengthDiff(m) + SumLengthDiff(ms \ {m})

Ev == Evaluator(tpl, read, alpha, beta, extendBuffer)

\* what an operation leaves in `last`
Op(op, outcome, m, branch, startCol, length, finite) ==
    [op |-> op, outcome |-> outcome, type |-> m.Type, start |-> m.Start,
     branch |-> branch, extendStartCol |-> startCol, extendLength |-> length,
     finite |-> finite]

PlainOp(op, outcome, m, finite) == Op(op, outcome, m, "", 0, 0, finite)

Idle == [op |-> "none", in |-> <<>>, out |-> <<>>]

Install(e) ==
    /\ tpl' = e.tpl
    /\ read' = e.read
    /\ alpha' = e.alpha
    /\ beta' = e.beta
    /\ extendBuffer' = e.extendBuffer

Init ==
    /\ phase = "new"
    /\ tpl \in {Template(s) : s \in SeqsOf(TemplateBases, 1, MaxTplLen)}
    /\ read \in {ReadOfLength(n) : n \in 1..MaxReadLen}
    /\ alpha = Unallocated
    /\ beta = Unallocated
    /\ extendBuffer = Unallocated
    /\ last = PlainOp("none", "", NoMutation, FALSE)
    /\ fn = Idle

\* EvaluatorImpl::EvaluatorImpl
Construct ==
    /\ phase = "new"
    /\ LET e == EvaluatorImpl_Members(tpl, read)
       IN IF ~EncodeRead(read).ok
          THEN /\ phase' = "failed"
               /\ last' = PlainOp("EvaluatorImpl", EncodeRead(read).err, NoMutation, FALSE)
               /\ UNCHANGED <<tpl, read, alpha, beta, extendBuffer>>
          ELSE IF EvaluatorImpl_Throws(e)
          THEN /\ phase' = "failed"
               /\ last' = PlainOp("EvaluatorImpl", "AlphaBetaMismatch", NoMutation, FALSE)
               /\ UNCHANGED <<tpl, read, alpha, beta, extendBuffer>>
          ELSE /\ phase' = "ready"
               /\ last' = PlainOp("EvaluatorImpl", "ok", NoMutation, IsFinite(LL(e)))
               /\ Install(e)
    /\ UNCHANGED fn

\* double EvaluatorImpl::LL(const Mutation& mut), returning
LLMutation(m) ==
    /\ phase = "ready"
    /\ \E r \in {LL_Mutation(Ev, m)} :
          /\ Install(r.e)
          /\ last' = Op("LL(mut)", "ok", m, r.branch, r.extendStartCol, r.extendLength,
                        IsFinite(r.score))
    /\ UNCHANGED <<phase, fn>>

\* double EvaluatorImpl::LL() const
LLConst ==
    /\ phase \in {"ready", "thrown"}
    /\ last' = PlainOp("LL()", "ok", NoMutation, IsFinite(LL(Ev)))
    /\ UNCHANGED <<phase, tpl, read, alpha, beta, extendBuffer, fn>>

\* NormalParameters() const: reads the template and the read's interval
NormalParameters ==
    /\ phase \in {"ready", "thrown"}
    /\ last' = PlainOp("NormalParameters", "ok", NoMutation, FALSE)
    /\ UNCHANGED <<phase, tpl, read, alpha, beta, extendBuffer, fn>>

\* ZScore() const: (LL() - mean) / sqrt(var)
ZScore ==
    /\ phase \in {"ready", "thrown"}
    /\ last' = PlainOp("ZScore", "ok", NoMutation, IsFinite(LL(Ev)))
    /\ UNCHANGED <<phase, tpl, read, alpha, beta, extendBuffer, fn>>

\* void EvaluatorImpl::ApplyMutation(const Mutation& mut)
ApplyMutation(m) ==
    /\ phase = "ready"
    /\ Len(tpl.tpl) + LengthDiff(m) \in 1..MaxTplLen
    /\ \E e \in {EvaluatorImpl_ApplyMutation(Ev, m)} :
          /\ Install(e)
          /\ last' = PlainOp("ApplyMutation", "ok", NoMutation, IsFinite(LL(e)))
    /\ UNCHANGED <<phase, fn>>

\* void EvaluatorImpl::ApplyMutations(std::vector<Mutation>* muts)
ApplyMutations(ms) ==
    /\ phase = "ready"
    /\ Len(tpl.tpl) + SumLengthDiff(ms) \in 1..MaxTplLen
    /\ \E r \in {Template_ApplyMutations(tpl, ms)}, e \in {EvaluatorImpl_ApplyMutations(Ev, ms)} :
          /\ Install(e)
          /\ last' = PlainOp("ApplyMutations", IF r.ok THEN "ok" ELSE r.err,
                             NoMutation, IsFinite(LL(e)))
    /\ UNCHANGED <<phase, fn>>

Next ==
    \/ Construct
    \/ \E m \in Mutations(Len(tpl.tpl)) : LLMutation(m)
    \/ LLConst
    \/ NormalParameters
    \/ ZScore
    \/ \E m \in Mutations(Len(tpl.tpl)) : ApplyMutation(m)
    \/ \E ms \in SUBSET BatchMutations(Len(tpl.tpl)) :
           Cardinality(ms) = 2 /\ ApplyMutations(ms)

Spec == Init /\ [][Next]_vars

----------------------------------------------------------------------------
(* The Evaluator when the allocation inside LL(mut) may fail *)

\* double EvaluatorImpl::LL(const Mutation& mut), leaving by std::bad_alloc
\* from ScaledMatrix alphaP(...)
LLMutationThrows(m) ==
    /\ phase = "ready"
    /\ Branch(LL_Mutation_Throws(Ev, m), m) = "fallback"
    /\ Install(LL_Mutation_Throws(Ev, m))
    /\ phase' = "thrown"
    /\ last' = Op("LL(mut)", "bad_alloc", m, "fallback", 0, 0, FALSE)
    /\ UNCHANGED fn

NextErr ==
    \/ Next
    \/ \E m \in Mutations(Len(tpl.tpl)) : LLMutationThrows(m)

SpecErr == Init /\ [][NextErr]_vars

----------------------------------------------------------------------------
(* The model's pure functions, applied to inputs a caller may pass *)

InitModel ==
    /\ phase = "none"
    /\ tpl = Template(<<>>)
    /\ read = MappedRead(<<>>, <<>>)
    /\ alpha = Unallocated
    /\ beta = Unallocated
    /\ extendBuffer = Unallocated
    /\ last = PlainOp("none", "", NoMutation, FALSE)
    /\ fn = Idle

DoPopulate ==
    /\ fn = Idle
    /\ \E s \in SeqsOf(InputChars, 0, MaxStrLen) :
           fn' = [op |-> "Populate", in |-> s, out |-> Populate(s)]
    /\ UNCHANGED evalVars

DoEncodeRead ==
    /\ fn = Idle
    /\ \E n \in 0..MaxReadLen :
         \E seq \in [1..n -> InputChars], pw \in [1..n -> 0..MaxPW] :
           fn' = [op |-> "EncodeRead", in |-> MappedRead(seq, pw),
                  out |-> EncodeRead(MappedRead(seq, pw))]
    /\ UNCHANGED evalVars

NextModel == DoPopulate \/ DoEncodeRead

SpecModel == InitModel /\ [][NextModel]_vars

----------------------------------------------------------------------------
(* The claims *)

\* the mutation of the last LL(mut) call
LastMutation == Mutation(last.type, last.start, "-")

\* the committed template's length
L == Len(tpl.tpl)

LLReturned == last.op = "LL(mut)" /\ last.outcome = "ok"

\* C1: a call of LL(mut) that returns leaves the Template as it was before
\* the call: the same object, the same length, the same visible positions.
C1_LLLeavesTemplate ==
    [][(last'.op = "LL(mut)" /\ last'.outcome = "ok")
          => /\ tpl' = tpl
             /\ Template_Length(tpl') = Template_Length(tpl)
             /\ View(tpl') = View(tpl)]_vars

\* an LL(mut) of a length-changing edit has returned through the atEnd branch
C1_Witness ==
    /\ LLReturned
    /\ last.type = "INSERTION"
    /\ last.branch = "atEnd"
    /\ ~tpl.mutated

\* C2: whichever way LL(mut) is left, by return or by exception, no virtual
\* mutation is pending afterwards.
C2_ResetOnEveryExit == last.op = "LL(mut)" => ~tpl.mutated

\* C3: a usable Evaluator always has a finite LL(): a fill that leaves it
\* non-finite is answered by AlphaBetaMismatch.
C3_LLAlwaysFinite == phase = "ready" => IsFinite(LL(Ev))

\* C4: after ApplyMutation the template, alpha, beta and LL() are those of
\* an Evaluator constructed on the committed template with the same read.
C4_CommitEqualsFresh ==
    (phase = "ready" /\ last.op = "ApplyMutation")
        => /\ tpl = Template(Bases(tpl.tpl))
           /\ alpha = EvaluatorImpl_Members(Template(Bases(tpl.tpl)), read).alpha
           /\ beta = EvaluatorImpl_Members(Template(Bases(tpl.tpl)), read).beta
           /\ LL(Ev) = LL(EvaluatorImpl_Members(Template(Bases(tpl.tpl)), read))

\* a commit has left the template ACA, with its four matrix columns
C4_Witness ==
    /\ phase = "ready"
    /\ last.op = "ApplyMutation"
    /\ alpha.cols = 4
    /\ Bases(tpl.tpl) = <<"A", "C", "A">>

\* C6 as stated: on a template of length 2 every LL(mut) takes the
\* atBegin-and-atEnd refill branch.
C6_LengthTwoAlwaysFallback == (LLReturned /\ L = 2) => last.branch = "fallback"

\* C6 amended: on a template of length 2 every mutation with end >= 1 takes
\* the refill branch, the insertion at 0 takes the ExtendBeta branch, and none
\* takes a branch that extends alpha.
C6_LengthTwoDispatch ==
    (LLReturned /\ L = 2)
        => /\ End(LastMutation) >= 1 => last.branch = "fallback"
           /\ End(LastMutation) = 0 => last.branch = "atBegin"
           /\ last.branch \notin {"middle", "atEnd"}

\* a deletion was scored on a template of length 2 by the refill branch
C6_Witness ==
    /\ LLReturned
    /\ L = 2
    /\ last.type = "DELETION"
    /\ last.branch = "fallback"

\* C7: Populate raises the invalid-base error when any character is outside
\* {A,C,G,T}; otherwise it returns len(tpl) positions, position i carrying
\* base tpl[i] and the row of context 4 * tpl[i] + tpl[i + 1], the last one
\* carrying (1, 0, 0, 0).
C7_Populate ==
    fn.op = "Populate" =>
        IF \E i \in 1..Len(fn.in) : fn.in[i] \notin ValidChars
        THEN ~fn.out.ok /\ fn.out.err = "InvalidBase" /\ fn.out.result = <<>>
        ELSE /\ fn.out.ok
             /\ Len(fn.out.result) = Len(fn.in)
             /\ \A i \in 1..(Len(fn.in) - 1) :
                  LET row == 4 * TranslationTable(fn.in[i]) + TranslationTable(fn.in[i + 1])
                      p == fn.out.result[i]
                  IN /\ row < nContexts
                     /\ p.Base = fn.in[i]
                     /\ <<p.Match, p.Branch, p.Stick, p.Deletion>>
                            = <<ctxTrans(row, 0), ctxTrans(row, 1), ctxTrans(row, 2), ctxTrans(row, 3)>>
             /\ fn.in # <<>> =>
                  LET p == fn.out.result[Len(fn.in)]
                  IN <<p.Match, p.Branch, p.Stick, p.Deletion>>
                         = <<Literal(1), Literal(0), Literal(0), Literal(0)>>

\* a template of three distinct valid bases was populated
C7_Witness ==
    /\ fn.op = "Populate"
    /\ fn.in = <<"G", "T", "C">>
    /\ fn.out.ok
    /\ Len(fn.out.result) = 3

\* C8: for a read of valid bases and pulse widths >= 1, EncodeRead returns N
\* outcomes, the i-th being 4 * min(pw[i] - 1, 2) + base[i], each in 0..11, so
\* no read-encoding error; an A encodes to 0, 4 or 8.
C8_EncodeRead ==
    (/\ fn.op = "EncodeRead"
     /\ \A i \in 1..Length(fn.in) :
            fn.in.PulseWidth[i] >= 1 /\ fn.in.Seq[i] \in ValidChars)
        => /\ fn.out.ok
           /\ fn.out.err # "ReadEncodingError"
           /\ Len(fn.out.result) = Length(fn.in)
           /\ \A i \in 1..Length(fn.in) :
                /\ fn.out.result[i]
                       = 4 * Min(fn.in.PulseWidth[i] - 1, 2) + TranslationTable(fn.in.Seq[i])
                /\ fn.out.result[i] \in 0..(nOutcomes - 1)
                /\ fn.in.Seq[i] = "A" => fn.out.result[i] \in {0, 4, 8}

\* a read with a saturating pulse width was encoded
C8_Witness ==
    /\ fn.op = "EncodeRead"
    /\ fn.in = MappedRead(<<"A", "T">>, <<4, 1>>)
    /\ fn.out.ok
    /\ fn.out.result = <<8, 3>>

\* C9: the branch of LL(mut) is the function of atBegin = start < 3 and
\* atEnd = end + 3 > L + 1 the table gives, each branch with its strategy;
\* start = 0 takes an atBegin branch and end = L an atEnd branch.
C9_Dispatch ==
    LLReturned =>
        LET m == LastMutation
            begin == Start(m) < 3
            end == End(m) + 3 > L + 1
        IN /\ beta.cols = L + 1
           /\ last.branch = (IF begin THEN (IF end THEN "fallback" ELSE "atBegin")
                                      ELSE (IF end THEN "atEnd" ELSE "middle"))
           /\ last.branch = "middle" => last.extendLength = 2
           /\ last.branch = "atEnd" =>
                  last.extendStartCol + last.extendLength - 1 = L + LengthDiff(m)
           /\ last.branch = "atBegin" =>
                  last.extendStartCol = 0 /\ last.extendLength = 1 + End(m) + LengthDiff(m)
           /\ last.branch = "fallback" => last.extendLength = 0
           /\ Start(m) = 0 => last.branch \in {"atBegin", "fallback"}
           /\ End(m) = L => last.branch \in {"atEnd", "fallback"}

\* an insertion next to the end of a template was scored by the middle branch
C9_Witness ==
    /\ LLReturned
    /\ last.branch = "middle"
    /\ last.type = "INSERTION"
    /\ End(LastMutation) = L - 2

\* C10: LL(mut) uses at most EXTEND_BUFFER_COLUMNS = 8 columns of the extend
\* buffer: 2 in the middle branch, virtualLength - (start - 1) + 1 in the atEnd
\* branch, 1 + end + lengthDiff in the atBegin branch, and the buffer keeps
\* its 8 columns.
C10_ExtendWithinBuffer ==
    LLReturned =>
        LET m == LastMutation
        IN /\ last.extendLength <= EXTEND_BUFFER_COLUMNS
           /\ Len(extendBuffer.col) = extendBuffer.cols
           /\ extendBuffer.cols = 8
           /\ last.branch = "middle" => last.extendLength = 2
           /\ last.branch = "atEnd" =>
                  last.extendLength = (L + LengthDiff(m)) - (Start(m) - 1) + 1
           /\ last.branch = "atBegin" => last.extendLength = 1 + End(m) + LengthDiff(m)

\* the longest extension: an insertion one base before the end
C10_Witness ==
    /\ LLReturned
    /\ last.branch = "atEnd"
    /\ last.extendLength = 4

\* a matrix with the given declared and stored dimensions
HasDimensions(m, rows, cols) ==
    /\ m.rows = rows
    /\ m.cols = cols
    /\ Len(m.col) = cols
    /\ \A j \in 1..cols : Len(m.col[j]) = rows

\* C11: in every usable state, with N the read length and L the committed
\* template length, alpha and beta are (N + 1) x (L + 1) and the extend buffer
\* is (N + 1) x 8; a commit of one mutation changes the columns of alpha and
\* beta by the mutation's lengthDiff.
C11_MatrixDimensions ==
    /\ [](phase = "ready"
            => /\ HasDimensions(alpha, Length(read) + 1, L + 1)
               /\ HasDimensions(beta, Length(read) + 1, L + 1)
               /\ HasDimensions(extendBuffer, Length(read) + 1, 8))
    /\ [][last'.op = "ApplyMutation"
            => \E old \in {Bases(tpl.tpl)}, new \in {Bases(tpl'.tpl)} :
                 /\ \E m \in Mutations(Len(old)) : new = ApplyToBases(old, m)
                 /\ \A m \in Mutations(Len(old)) :
                      new = ApplyToBases(old, m)
                          => /\ alpha'.cols = alpha.cols + LengthDiff(m)
                             /\ beta'.cols = beta.cols + LengthDiff(m)]_vars

\* a commit has left a template of length 2 under a read of length 2, after
\* an LL(mut) had used the extend buffer
C11_Witness ==
    /\ phase = "ready"
    /\ last.op = "ApplyMutation"
    /\ L = 2
    /\ HasDimensions(alpha, 3, 3)
    /\ HasDimensions(beta, 3, 3)
    /\ HasDimensions(extendBuffer, 3, 8)

\* the mutations a caller may have passed to the LL(mut) recorded in op
MutationsOf(op, len) == {m \in Mutations(len) : m.Type = op.type /\ m.Start = op.start}

\* what the branch recorded in op reads as its score from the extend buffer
\* of e, the Evaluator the call left
ScoreRead(e, m, op) ==
    CASE op.branch = "middle" ->
             LL_MiddleScore(e, m, e.extendBuffer, op.extendStartCol, op.extendLength).score
      [] op.branch = "atEnd" ->
             LL_AtEndScore(e, e.extendBuffer, op.extendStartCol, op.extendLength).score
      [] op.branch = "atBegin" -> LL_AtBeginScore(m, e.extendBuffer).score
      [] OTHER -> Bit(op.finite)

\* C12: a call of LL(mut) writes neither alpha nor beta, so they and LL() are
\* the same before and after it; the fallback branch leaves the extend buffer
\* alone as well; and what a call returns is read from the extend-buffer
\* columns the call itself wrote, never from what an earlier call left there.
C12_LLWritesOnlyBuffer ==
    [][(last'.op = "LL(mut)" /\ last'.outcome = "ok")
          => /\ alpha' = alpha
             /\ beta' = beta
             /\ Get(beta', 0, 0) = LL(Ev)
             /\ last'.branch = "fallback" => extendBuffer' = extendBuffer
             /\ \A m \in MutationsOf(last', L) :
                  \E score \in {ScoreRead(Ev', m, last')} :
                      /\ score \in {0, 1}
                      /\ last'.finite = IsFinite(score)]_vars

\* an LL(mut) through the atEnd branch has returned on a buffer an earlier
\* call had left its columns in
C12_Witness ==
    /\ LLReturned
    /\ last.branch = "atEnd"
    /\ last.finite
    /\ \E j \in 1..Len(extendBuffer.col) : extendBuffer.col[j] = LeftoverColumn(extendBuffer.rows)

\* C13: at most one virtual mutation is in effect at a time: no public
\* operation, and so no Mutate and no commit, begins while a virtual mutation
\* is installed on the Template.
C13_OneVirtualMutation == [][~tpl.mutated]_vars

\* C14: in the middle branch, for a single-base mutation, the two extended
\* alpha columns end immediately before the link column of the virtual
\* template: extendStartCol + extendLength = 1 + end + lengthDiff, with
\* extendStartCol = start - 1 for a deletion and start otherwise and
\* extendLength = 2; and betaLinkCol - absoluteLinkColumn = -lengthDiff.
C14_MiddleColumnAlgebra ==
    (LLReturned /\ last.branch = "middle")
        => LET m == LastMutation
           IN /\ End(m) = (IF last.type = "INSERTION" THEN Start(m) ELSE Start(m) + 1)
              /\ last.extendLength = 2
              /\ last.extendStartCol = (IF last.type = "DELETION" THEN Start(m) - 1 ELSE Start(m))
              /\ last.extendStartCol + last.extendLength = absoluteLinkColumn(m)
              /\ absoluteLinkColumn(m) = 1 + End(m) + LengthDiff(m)
              /\ betaLinkCol(m) - absoluteLinkColumn(m) = -LengthDiff(m)

\* a deletion was scored by the middle branch
C14_Witness ==
    /\ LLReturned
    /\ last.branch = "middle"
    /\ last.type = "DELETION"
    /\ last.extendStartCol = last.start - 1

\* C15: every column index LL(mut) computes is in range: start - 1 is taken
\* only when start >= 3; in the middle branch betaLinkCol = 1 + end is a
\* column of beta; in the atEnd branch virtualLength + 1 > start - 1 and the
\* extend length is >= 1; in the atBegin branch end + 1 <= beta.cols and
\* 1 + end + lengthDiff >= 1.
C15_ColumnIndicesInRange ==
    LLReturned
        => LET m == LastMutation
               virtualLength == L + LengthDiff(m)
           IN /\ Start(m) <= End(m) /\ End(m) <= L
              /\ beta.cols = L + 1
              /\ last.extendStartCol >= 0
              /\ last.branch \in {"middle", "atEnd"} => Start(m) >= 3
              /\ last.branch = "middle"
                   => /\ betaLinkCol(m) = 1 + End(m)
                      /\ betaLinkCol(m) < beta.cols
                      /\ last.extendStartCol + last.extendLength <= virtualLength + 1
              /\ last.branch = "atEnd"
                   => /\ last.extendStartCol = Start(m) - 1
                      /\ virtualLength + 1 > last.extendStartCol
                      /\ last.extendLength = virtualLength - last.extendStartCol + 1
                      /\ last.extendLength >= 1
              /\ last.branch = "atBegin"
                   => /\ End(m) + 1 <= beta.cols
                      /\ last.extendLength = 1 + End(m) + LengthDiff(m)
                      /\ last.extendLength >= 1

\* a deletion of the first base was scored by the atBegin branch, with the
\* shortest extension
C15_Witness ==
    /\ LLReturned
    /\ last.branch = "atBegin"
    /\ last.type = "DELETION"
    /\ last.start = 0
    /\ last.extendLength = 1

====
